---- MODULE Spec2Model ----
(***************************************************************************)
(* kcshot editor: the EditorWindow event handlers (src/editor/underlying.rs)*)
(* driving the annotation OperationStack, the render pass and the colour   *)
(* picking exchange with the colour chooser dialog.                        *)
(*                                                                         *)
(* The OperationStack itself (operations/stack.rs) and the Tool and        *)
(* geometry types (operations/data.rs, kcshot_data) are not part of the    *)
(* sources at hand; their operators below follow sections 3 and 4 of the   *)
(* specification and are marked as such.                                   *)
(***************************************************************************)
EXTENDS Integers, Sequences, FiniteSets, TLC

VARIABLES
    image_cell,                     \* EditorWindow::image, the RefCell: whether it
                                    \* holds an Image, its borrow flag and the
                                    \* closures running on it
    surface,                        \* Image::surface, the captured screenshot
    operation_stack,                \* Image::operation_stack
    colour_tx,                      \* EditorWindow::colour_tx (TRUE = Some(sender))
    colour_rx,                      \* colours sent through the channel, not yet received
    dialog,                         \* the colour chooser Dialog: "none", "shown", "hidden"
    chooser_colour,                 \* the colour of the dialog's ColourChooserWidget
    alpha,                          \* ColourChooserWidget::alpha, the Cell<u8>
    text_dialog,                    \* the text dialog popped by the Text tool is open
    editing_started_with_cropping,  \* EditorWindow::editing_started_with_cropping
    session,                        \* "open", "closed" (window.close()), "panicked"
    redraw_queued,                  \* the last handler called drawing_area.queue_draw()
    postcapture,                    \* pixbufs handed to run_postcapture_actions
    button,                         \* the button the click gesture has pressed (0 = none)
    drag_active,                    \* the drag gesture is between drag-begin and drag-end
    ctrl_down,                      \* the Control keys physically held
    calls,                          \* the OperationStack calls of the last handler, in order
    pass,                           \* the render pass of the last handler, step by step
    orig,                           \* history: the operations committed and not undone,
                                    \* as of the last commit
    ur                              \* history: <<undos, redos>> since the last commit

dialogVars == <<colour_tx, colour_rx, dialog, chooser_colour, alpha>>
hostVars == <<button, drag_active, ctrl_down>>
histVars == <<orig, ur>>
\* what constructed sets and no handler writes
constructedVars == <<editing_started_with_cropping, surface>>
vars == <<image_cell, operation_stack, colour_tx, colour_rx, dialog, chooser_colour, alpha,
          text_dialog,
          editing_started_with_cropping, surface, session, redraw_queued, postcapture,
          button, drag_active, ctrl_down, calls, pass, orig, ur>>

---------------------------------------------------------------------------
(* Bounds of the explored sessions *)

\* most entries the committed sequence and the redo buffer hold together
MaxOps == 3

---------------------------------------------------------------------------
(* Geometry, tools, operations *)

BUTTON_PRIMARY == 1
BUTTON_SECONDARY == 3
\* the buttons of the pointer: primary, middle, secondary
Buttons == {BUTTON_PRIMARY, 2, BUTTON_SECONDARY}

Rect(x, y, w, h) == [x |-> x, y |-> y, w |-> w, h |-> h]

\* the session's screen bounds and detected windows, in the order provided
ScreenDimensions == Rect(0, 0, 10, 10)
DetectedWindows == <<Rect(2, 2, 4, 4), Rect(0, 0, 8, 8)>>

is_saving_tool(tool) == tool = "CropAndSave"
is_cropping_tool(tool) == tool \in {"CropAndSave", "Crop"}

\* the Operation variant a tool produces
ToolKind(tool) ==
    CASE tool = "CropAndSave" -> "Crop"
      [] tool = "Crop" -> "Crop"
      [] tool = "Pencil" -> "DrawLine"
      [] tool = "Rectangle" -> "DrawRectangle"
      [] tool = "Arrow" -> "DrawArrow"
      [] tool = "Ellipse" -> "DrawEllipse"
      [] tool = "Highlight" -> "Highlight"
      [] tool = "Blur" -> "Blur"
      [] tool = "Text" -> "Text"

\* a new operation of the tool's shape, anchored at point, of zero size
ToOperation(tool, point) ==
    [kind |-> ToolKind(tool), x |-> point[1], y |-> point[2], w |-> 0, h |-> 0]

OpRect(op) == Rect(op.x, op.y, op.w, op.h)

Contains(rect, point) ==
    /\ rect.x <= point[1] /\ point[1] <= rect.x + rect.w
    /\ rect.y <= point[2] /\ point[2] <= rect.y + rect.h

---------------------------------------------------------------------------
(* OperationStack *)

\* OperationStack::new
NewStack(windows, screen_dimensions, tool) ==
    [ committed |-> <<>>,
      redo |-> <<>>,
      current_operation |-> <<>>,
      current_tool |-> tool,
      selection_mode |-> "WindowsWithDecorations",
      ignore_windows |-> FALSE,
      is_in_crop_drag |-> FALSE,
      windows |-> windows,
      screen_dimensions |-> screen_dimensions ]

Idle(s) == s.current_operation = <<>>
Drawing(s) == s.current_operation # <<>>

\* start_operation_at that adds an operation next to the one in progress
start_operation_at_stacks(s, point) ==
    [s EXCEPT !.current_operation = Append(@, ToOperation(s.current_tool, point))]

start_operation_at(s, point) ==
    IF Idle(s)
    THEN [s EXCEPT !.current_operation = <<ToOperation(s.current_tool, point)>>]
    ELSE s

update_current_operation_end_coordinate(s, x, y) ==
    IF Drawing(s)
    THEN [s EXCEPT !.current_operation = <<[s.current_operation[1] EXCEPT !.w = x, !.h = y]>>]
    ELSE s

\* finish_current_operation that keeps the redo buffer
finish_keeps_redo(s) ==
    IF Drawing(s)
    THEN [s EXCEPT !.committed = Append(s.committed, s.current_operation[1]),
                   !.current_operation = <<>>]
    ELSE s

finish_current_operation(s) ==
    IF Drawing(s)
    THEN [s EXCEPT !.committed = Append(s.committed, s.current_operation[1]),
                   !.redo = <<>>,
                   !.current_operation = <<>>]
    ELSE s

undo(s) ==
    IF s.committed = <<>> THEN s
    ELSE [s EXCEPT !.committed = SubSeq(s.committed, 1, Len(s.committed) - 1),
                   !.redo = Append(s.redo, s.committed[Len(s.committed)])]

redo(s) ==
    IF s.redo = <<>> THEN s
    ELSE [s EXCEPT !.redo = SubSeq(s.redo, 1, Len(s.redo) - 1),
                   !.committed = Append(s.committed, s.redo[Len(s.redo)])]

set_current_tool(s, tool) == [s EXCEPT !.current_tool = tool]
set_ignore_windows(s, b) == [s EXCEPT !.ignore_windows = b]
set_is_in_crop_drag(s, b) == [s EXCEPT !.is_in_crop_drag = b]
set_selection_mode(s, mode) == [s EXCEPT !.selection_mode = mode]

\* the last detected window, in list order, that contains point
LastWindowAt(windows, point) ==
    LET hits == {i \in 1..Len(windows) : Contains(windows[i], point)}
    IN IF hits = {} THEN <<>>
       ELSE <<windows[CHOOSE i \in hits : \A j \in hits : j <= i]>>

\* the first detected window, in list order, that contains point
FirstWindowAt(windows, point) ==
    LET hits == {i \in 1..Len(windows) : Contains(windows[i], point)}
    IN IF hits = {} THEN <<>>
       ELSE <<windows[CHOOSE i \in hits : \A j \in hits : i <= j]>>

set_current_window(s, x, y) ==
    IF /\ is_cropping_tool(s.current_tool)
       /\ Drawing(s)
       /\ ~s.ignore_windows
       /\ FirstWindowAt(s.windows, <<x, y>>) # <<>>
    THEN LET win == FirstWindowAt(s.windows, <<x, y>>)[1]
         IN [s EXCEPT !.current_operation =
                <<[s.current_operation[1] EXCEPT !.x = win.x, !.y = win.y,
                                                 !.w = win.w, !.h = win.h]>>]
    ELSE s

\* OperationStack::crop_region: Some(rectangle) as <<rectangle>>, None as <<>>
crop_region(s, point) ==
    LET crops == {i \in 1..Len(s.committed) : s.committed[i].kind = "Crop"}
    IN IF crops # {}
       THEN <<OpRect(s.committed[CHOOSE i \in crops : \A j \in crops : j <= i])>>
       ELSE IF point = <<>> THEN <<>>
       ELSE FirstWindowAt(s.windows, point[1])

---------------------------------------------------------------------------
(* Rendering *)

MarkerKinds == {"Finish", "Crop", "WindowSelect", "Pixelate"}

\* Operation::execute: the marker variants are todo!(), which panics
ExecutePanics(op) == op.kind \in MarkerKinds

\* The graphics state of a cairo context: the operator, the source and the
\* transform, and the states saved and not yet restored
NewContext ==
    [operator |-> "Over", source |-> <<"black">>, transform |-> <<>>, saved |-> <<>>]
GState(cairo) ==
    [operator |-> cairo.operator, source |-> cairo.source, transform |-> cairo.transform]
cairo_save(cairo) == [cairo EXCEPT !.saved = Append(@, GState(cairo))]
cairo_restore(cairo) ==
    LET g == cairo.saved[Len(cairo.saved)]
    IN [operator |-> g.operator, source |-> g.source, transform |-> g.transform,
        saved |-> SubSeq(cairo.saved, 1, Len(cairo.saved) - 1)]
set_operator(cairo, operator) == [cairo EXCEPT !.operator = operator]
set_source(cairo, source) == [cairo EXCEPT !.source = source]
transformed(cairo, by) == [cairo EXCEPT !.transform = Append(@, by)]

\* sources are named: the colours of an operation by its kind and their role
HIGHLIGHT_COLOUR == <<"HIGHLIGHT_COLOUR">>
INVISIBLE == <<"INVISIBLE">>
ColourOf(op, role) == <<op.kind, role>>

\* CairoExt::set_source_colour
set_source_colour(cairo, colour) == set_source(cairo, colour)

draw_rectangle(cairo, border, fill) ==
    cairo_restore(set_source_colour(set_source_colour(cairo_save(cairo), fill), border))

draw_line(cairo, colour) == set_source_colour(cairo, colour)

draw_arrow(cairo, colour) == set_source_colour(cairo, colour)

\* Angles are whole degrees, multiples of 30; cosines, sines and the
\* coordinates of a path are in thousandths.
Turn(deg) == ((deg + 180) % 360) - 180
Cos1000(deg) ==
    LET d == IF Turn(deg) < 0 THEN -Turn(deg) ELSE Turn(deg)
    IN CASE d = 0 -> 1000 [] d = 30 -> 866 [] d = 60 -> 500 [] d = 90 -> 0
         [] d = 120 -> -500 [] d = 150 -> -866 [] d = 180 -> -1000
Sin1000(deg) == Cos1000(deg - 90)
ARROWHEAD_APERTURE == 30
\* ARROWHEAD_LENGTH_RATIO is 0.1: ten arrowhead lengths in a length
ARROWHEAD_LENGTHS == 10

\* Point::dist of a vector along an axis
dist(v) == (IF v[1] < 0 THEN -v[1] ELSE v[1]) + (IF v[2] < 0 THEN -v[2] ELSE v[2])
\* (y / x).atan(): y / x is an infinity when x is 0 and y is not, and NaN
\* (here <<>>) when both are 0
atan_of_ratio(y, x) ==
    IF x = 0 THEN (IF y > 0 THEN <<90>> ELSE IF y < 0 THEN <<-90>> ELSE <<>>)
    ELSE <<CHOOSE d \in {-60, -30, 0, 30, 60} : y * Cos1000(d) = x * Sin1000(d)>>
get_line_angle(start, end) == atan_of_ratio(end[2] - start[2], end[1] - start[1])
\* get_line_angle by the quadrant of the vector
get_line_angle_atan2(start, end) ==
    LET x == end[1] - start[1]
        y == end[2] - start[2]
    IN IF x = 0 THEN (IF y > 0 THEN <<90>> ELSE IF y < 0 THEN <<-90>> ELSE <<>>)
       ELSE IF x < 0 /\ y = 0 THEN <<180>>
       ELSE <<CHOOSE d \in {-60, -30, 0, 30, 60} : y * Cos1000(d) = x * Sin1000(d)>>

\* the path draw_arrow builds and the number of its stroke calls: move_to,
\* line_to, rel_move_to, line_to, rel_line_to, stroke. A segment is the pair
\* of its end points; with a NaN angle only the shaft has coordinates.
Milli(point) == <<point[1] * 1000, point[2] * 1000>>
draw_arrow_path(start, end) ==
    LET angle == get_line_angle(start, end)
        length == dist(<<end[1] - start[1], end[2] - start[2]>>)
        \* arrow_length in thousandths is tenths * 100
        tenths == (length * 10) \div ARROWHEAD_LENGTHS
        x1 == -((tenths * Cos1000(angle[1] - ARROWHEAD_APERTURE)) \div 10)
        x2 == -((tenths * Cos1000(angle[1] + ARROWHEAD_APERTURE)) \div 10)
        y1 == -((tenths * Sin1000(angle[1] - ARROWHEAD_APERTURE)) \div 10)
        y2 == -((tenths * Sin1000(angle[1] + ARROWHEAD_APERTURE)) \div 10)
        tip == Milli(end)
    IN [ segments |->
            <<<<Milli(start), tip>>>> \o
            (IF angle = <<>> THEN <<>>
             ELSE << <<<<tip[1] + x1, tip[2] + y1>>, tip>>,
                     <<tip, <<tip[1] + x2, tip[2] + y2>>>> >>),
         arrow_length |-> tenths * 100,
         strokes |-> 1 ]

blur(cairo) ==
    cairo_restore(set_source(set_operator(cairo_save(cairo), "Over"), <<"blurred_pixbuf">>))

\* Operation::execute on a context: the context it leaves when it returns Ok
execute(op, cairo) ==
    CASE op.kind = "Blur" -> cairo_restore(blur(cairo_save(cairo)))
      [] op.kind = "DrawLine" -> draw_line(cairo, ColourOf(op, "colour"))
      [] op.kind = "DrawRectangle" ->
            draw_rectangle(cairo, ColourOf(op, "border"), ColourOf(op, "fill"))
      [] op.kind = "Text" ->
            cairo_restore(set_source_colour(cairo_save(cairo), ColourOf(op, "colour")))
      [] op.kind = "DrawArrow" -> draw_arrow(cairo, ColourOf(op, "colour"))
      [] op.kind = "Highlight" -> draw_rectangle(cairo, INVISIBLE, HIGHLIGHT_COLOUR)
      [] op.kind = "DrawEllipse" ->
            LET inner == cairo_restore(
                            set_source_colour(
                               transformed(transformed(cairo_save(cairo_save(cairo)),
                                                       "translate"), "scale"),
                               ColourOf(op, "fill")))
            IN cairo_restore(set_source_colour(inner, ColourOf(op, "border")))
      [] OTHER -> cairo

\* The calls Operation::execute makes for op that return a Result or change
\* the context, in program order
Do(call, arg) == [call |-> call, arg |-> arg]
RectangleCalls(border, fill) ==
    << Do("save", <<>>), Do("set_source_colour", fill), Do("fill_preserve", <<>>),
       Do("set_source_colour", border), Do("stroke", <<>>), Do("restore", <<>>) >>
BlurCalls ==
    << Do("pixel_bytes", <<>>), Do("as_view", <<>>), Do("save", <<>>),
       Do("set_operator", <<"Over">>), Do("set_source_pixbuf", <<"blurred_pixbuf">>),
       Do("paint", <<>>), Do("restore", <<>>) >>
Calls(op) ==
    CASE op.kind = "Blur" ->
            <<Do("save", <<>>), Do("pixbuf_get_from_surface", <<>>)>> \o BlurCalls \o
            <<Do("restore", <<>>)>>
      [] op.kind = "DrawLine" ->
            <<Do("set_source_colour", ColourOf(op, "colour")), Do("stroke", <<>>)>>
      [] op.kind = "DrawRectangle" ->
            RectangleCalls(ColourOf(op, "border"), ColourOf(op, "fill"))
      [] op.kind = "Text" ->
            << Do("save", <<>>), Do("set_source_colour", ColourOf(op, "colour")),
               Do("show_layout", <<>>), Do("restore", <<>>) >>
      [] op.kind = "DrawArrow" ->
            <<Do("set_source_colour", ColourOf(op, "colour")), Do("stroke", <<>>)>>
      [] op.kind = "Highlight" -> RectangleCalls(INVISIBLE, HIGHLIGHT_COLOUR)
      [] op.kind = "DrawEllipse" ->
            << Do("save", <<>>), Do("save", <<>>), Do("translate", <<"translate">>),
               Do("scale", <<"scale">>),
               Do("set_source_colour", ColourOf(op, "fill")),
               Do("fill_preserve", <<>>), Do("restore", <<>>),
               Do("set_source_colour", ColourOf(op, "border")), Do("stroke", <<>>),
               Do("restore", <<>>) >>
      [] OTHER -> <<>>

\* the calls followed by ? and the variant of Error each returns
Fallible(c) ==
    c.call \in {"save", "restore", "fill_preserve", "stroke", "paint",
                "pixbuf_get_from_surface", "pixel_bytes", "as_view"}
Ok == <<"Ok">>
\* every failure reported as a graphics-context error
ErrorOf_cairo(c, op) == <<"Cairo">>
ErrorOf(c, op) ==
    CASE c.call = "pixbuf_get_from_surface" -> <<"Pixbuf", OpRect(op)>>
      [] c.call = "pixel_bytes" -> <<"PixelBytes">>
      [] c.call = "as_view" -> <<"Image">>
      [] OTHER -> <<"Cairo">>
\* the calls that put something on the surface
Paints(c) == c.call \in {"fill_preserve", "stroke", "paint", "show_layout"}
\* the context after a call that succeeded
Apply(c, cairo) ==
    CASE c.call = "save" -> cairo_save(cairo)
      [] c.call = "restore" -> cairo_restore(cairo)
      [] c.call = "set_operator" -> set_operator(cairo, c.arg[1])
      [] c.call \in {"set_source_colour", "set_source_pixbuf"} -> set_source(cairo, c.arg)
      [] c.call \in {"translate", "scale"} -> transformed(cairo, c.arg[1])
      [] OTHER -> cairo

\* Operation::execute when call number fail returns Err (0: none does): the
\* context at the exit, what is returned, how many calls painted, and the
\* call that failed
RECURSIVE RunCalls(_, _, _, _, _)
RunCalls(op, cs, cairo, fail, painted) ==
    IF cs = <<>>
    THEN [cairo |-> cairo, result |-> Ok, painted |-> painted, at |-> ""]
    ELSE IF fail = 1
    THEN [cairo |-> cairo, result |-> ErrorOf(Head(cs), op), painted |-> painted,
          at |-> Head(cs).call]
    ELSE RunCalls(op, Tail(cs), Apply(Head(cs), cairo), fail - 1,
                  painted + (IF Paints(Head(cs)) THEN 1 ELSE 0))
execute_until(op, cairo, fail) == RunCalls(op, Calls(op), cairo, fail, 0)
FailurePoints(op) == {i \in 1..Len(Calls(op)) : Fallible(Calls(op)[i])}

\* The failure of a render pass: <<-1, 0>> set_source_surface of the base
\* image fails, <<-2, 0>> its paint fails, <<k, i>> call i of the execute of
\* the k-th operation fails, NoFailure nothing does
NoFailure == <<0, 0>>
BaseFailures == {<<-1, 0>>, <<-2, 0>>}

\* a step of a render pass: what was called, on which operation, whether the
\* pass is a live draw, the context after the call, what the call returned,
\* how many times an execute painted and the call at which it failed
Step(f, ops, live, cairo) ==
    [f |-> f, op |-> ops, live |-> live, cairo |-> cairo, result |-> Ok,
     painted |-> 0, at |-> "", path |-> <<>>]
\* the path of an operation that is an arrow: start at (x, y), end at the
\* offset (w, h) from it
PathOf(op) ==
    IF op.kind = "DrawArrow"
    THEN <<draw_arrow_path(<<op.x, op.y>>, <<op.x + op.w, op.y + op.h>>)>>
    ELSE <<>>

\* OperationStack::execute: the committed operations in commit order, then
\* the in-progress one on a live draw; a panic ends the pass where it happens,
\* and so does a graphics-context error, while the other errors skip the
\* operation
ToExecute(s, is_in_draw_event) ==
    s.committed \o (IF is_in_draw_event THEN s.current_operation ELSE <<>>)

ValidFailure(s, is_in_draw_event, fail) ==
    LET ops == ToExecute(s, is_in_draw_event)
    IN \/ fail = NoFailure
       \/ fail \in BaseFailures
       \/ /\ fail[1] \in 1..Len(ops)
          /\ fail[2] \in FailurePoints(ops[fail[1]])
          /\ \A k \in 1..(fail[1] - 1) : ~ExecutePanics(ops[k])

RECURSIVE Replay(_, _, _, _)
Replay(ops, cairo, is_in_draw_event, fail) ==
    IF ops = <<>> THEN <<>>
    ELSE LET exit == IF fail[1] = 1
                     THEN execute_until(Head(ops), cairo, fail[2])
                     ELSE [cairo |-> execute(Head(ops), cairo), result |-> Ok,
                           painted |-> execute_until(Head(ops), cairo, 0).painted,
                           at |-> ""]
             step == [Step("execute", <<Head(ops)>>, is_in_draw_event, exit.cairo)
                         EXCEPT !.result = exit.result, !.painted = exit.painted,
                                !.at = exit.at, !.path = PathOf(Head(ops))]
         IN <<step>> \o
            (IF ExecutePanics(Head(ops)) \/ exit.result = <<"Cairo">> THEN <<>>
             ELSE Replay(Tail(ops), exit.cairo, is_in_draw_event,
                         <<fail[1] - 1, fail[2]>>))

stack_execute(s, cairo, is_in_draw_event, fail) ==
    LET ops == ToExecute(s, is_in_draw_event)
        steps == Replay(ops, cairo, is_in_draw_event, fail)
    IN [ steps |-> steps,
         panicked |-> steps # <<>> /\ ExecutePanics(steps[Len(steps)].op[1]) ]

\* EditorWindow::do_draw
do_draw(s, cairo, is_in_draw_event, fail) ==
    LET c1 == set_operator(cairo, "Source")
        c2 == IF fail = <<-1, 0>> THEN c1 ELSE set_source(c1, <<"image.surface">>)
        c4 == set_operator(c2, "Over")
        ex == stack_execute(s, c4, is_in_draw_event, fail)
        logged(step, failed) ==
            IF failed THEN [step EXCEPT !.result = <<"Cairo">>, !.at = step.f] ELSE step
    IN [ steps |-> << Step("set_operator Source", <<>>, is_in_draw_event, c1),
                      logged(Step("set_source_surface", <<>>, is_in_draw_event, c2),
                             fail = <<-1, 0>>),
                      logged(Step("paint", <<>>, is_in_draw_event, c2),
                             fail = <<-2, 0>>),
                      Step("set_operator Over", <<>>, is_in_draw_event, c4) >> \o ex.steps,
         panicked |-> ex.panicked ]

\* An image surface of format RGB24: every pixel is a 32-bit quantity, the
\* upper 8 bits unused, then red, green and blue; a row takes stride bytes,
\* the pixels first, then padding. data holds the 32-bit quantities of the
\* rows one after the other.
PixelWord(colour, unused) ==
    ((unused * 256 + colour.red) * 256 + colour.green) * 256 + colour.blue

\* the surface of width x height pixels on which pixel (x, y) was painted
\* with pixels[<<x, y>>]
Paint(pixels, width, height, stride, unused) ==
    [ width |-> width, height |-> height, stride |-> stride,
      data |-> [k \in 1..(height * (stride \div 4)) |->
                  LET x == (k - 1) % (stride \div 4)
                      y == (k - 1) \div (stride \div 4)
                  IN IF x < width THEN PixelWord(pixels[<<x, y>>], unused)
                     ELSE 0] ]

\* data[idx] of the surface's bytes: the quantities are stored little-endian
Byte(data, idx) == (data[idx \div 4 + 1] \div (256 ^ (idx % 4))) % 256

\* get_colour_at that takes the bytes in the order red, green, blue
get_colour_at_rgb(image, x, y) ==
    LET idx == x * 4 + (y * image.stride)
    IN [red |-> Byte(image.data, idx), green |-> Byte(image.data, idx + 1),
        blue |-> Byte(image.data, idx + 2), alpha |-> 255]

\* Image::get_colour_at
get_colour_at(image, x, y) ==
    LET idx == x * 4 + (y * image.stride)
    IN [red |-> Byte(image.data, idx + 2), green |-> Byte(image.data, idx + 1),
        blue |-> Byte(image.data, idx), alpha |-> 255]

\* the screenshot of the editor sessions: pixel (x, y) has the colour
\* (x, y, x + y)
CapturedImage ==
    Paint([p \in (0..(ScreenDimensions.w - 1)) \X (0..(ScreenDimensions.h - 1)) |->
              [red |-> p[1], green |-> p[2], blue |-> p[1] + p[2]]],
          ScreenDimensions.w, ScreenDimensions.h, ScreenDimensions.w * 4, 0)

NoColour == [red |-> 0, green |-> 0, blue |-> 0, alpha |-> 255]

\* the rectangle of do_save_surface with an empty rectangle as the fallback
SaveRectangle_or_default(s, point) ==
    IF crop_region(s, point) # <<>> THEN crop_region(s, point)[1] ELSE Rect(0, 0, 0, 0)

\* the rectangle do_save_surface cuts out of the surface
SaveRectangle(s, point) ==
    IF crop_region(s, point) # <<>> THEN crop_region(s, point)[1] ELSE s.screen_dimensions

\* a call of an OperationStack method, with the state it was made in
Call(f, s) == [f |-> f, drawing |-> Drawing(s),
               committed |-> Len(s.committed), redo |-> Len(s.redo), at |-> <<>>]
\* the same, for a call that is given a point (Some(point) as <<point>>)
CallAt(f, s, point) == [Call(f, s) EXCEPT !.at = point]

---------------------------------------------------------------------------
(* History of commits, undos and redos *)

\* ur counts the undo activations, then the redo activations, made in that
\* order since the last commit; Lost once the activations left that pattern
\* Untracked in the sessions that keep no history
Lost == <<-1, -1>>
Untracked == <<-2, -2>>
Tracked == ur # Lost /\ ur # Untracked
NoteUndo(s) == IF ur = Untracked THEN ur
               ELSE IF ur # Lost /\ ur[2] = 0 /\ s.committed # <<>>
               THEN <<ur[1] + 1, 0>> ELSE Lost
NoteRedo(s) == IF ur = Untracked THEN ur
               ELSE IF ur # Lost /\ ur[2] < ur[1]
               THEN <<ur[1], ur[2] + 1>> ELSE Lost

\* a handler finished the operation of stack s: from Drawing that commits it.
\* orig is kept apart from the stack: the commits so far, less the undone ones
NoteFinish(s, t) ==
    IF Drawing(s) /\ ur # Untracked
    THEN /\ orig' = IF ur # Lost
                    THEN Append(SubSeq(orig, 1, Len(orig) - ur[1] + ur[2]),
                                s.current_operation[1])
                    ELSE t.committed
         /\ ur' = <<0, 0>>
    ELSE UNCHANGED histVars

---------------------------------------------------------------------------
(* The alpha property of the colour chooser *)

\* the range and the default that properties() declares for "alpha"
ALPHA_MINIMUM == 0
ALPHA_MAXIMUM == 256
ALPHA_DEFAULT == 255

\* value as u8, of an i32: the low eight bits
as_u8(value) == value % 256

---------------------------------------------------------------------------
(* Saving *)

\* EditorWindow::do_save_surface, from the stack s the caller left
do_save_surface(s, point, ctx_ok, pixbuf_ok) ==
    IF ~ctx_ok
    THEN /\ pass' = <<>>
         /\ UNCHANGED <<session, postcapture>>
    ELSE LET drawn == do_draw(s, NewContext, FALSE, NoFailure)
         IN /\ pass' = drawn.steps
            /\ IF drawn.panicked
               THEN session' = "panicked" /\ UNCHANGED postcapture
               ELSE /\ session' = "closed"
                    /\ postcapture' =
                         IF pixbuf_ok
                         THEN Append(postcapture, SaveRectangle(s, point))
                         ELSE postcapture

---------------------------------------------------------------------------
(* The RefCell holding the Image *)

\* borrow: the number of shared borrows, or -1 for the exclusive borrow;
\* running: the closures of with_image and with_image_mut that have not
\* returned, the innermost last
ImageCell(some) == [some |-> some, borrow |-> 0, running |-> <<>>]
try_borrow(cell) == cell.borrow >= 0
try_borrow_mut(cell) == cell.borrow = 0

---------------------------------------------------------------------------
(* Initial state: ObjectImpl::constructed *)

InitWith(tools, modes, history, images, cells) ==
    /\ image_cell \in cells
    /\ editing_started_with_cropping \in modes
    /\ surface \in images
    /\ \E tool \in tools :
         operation_stack = NewStack(DetectedWindows, ScreenDimensions, tool)
    /\ colour_tx = FALSE
    /\ colour_rx = <<>>
    /\ dialog = "none"
    /\ chooser_colour = NoColour
    /\ alpha = as_u8(ALPHA_DEFAULT)
    /\ text_dialog = FALSE
    /\ session = "open"
    /\ redraw_queued = FALSE
    /\ postcapture = <<>>
    /\ button = 0
    /\ drag_active = FALSE
    /\ ctrl_down = {}
    /\ calls = <<>>
    /\ pass = <<>>
    /\ orig = <<>>
    /\ ur = history

---------------------------------------------------------------------------
(* Pointer handlers *)

\* connect_pressed that reads colour_tx without taking it
click_pressed_keeps_colour_tx(points, cap) ==
    /\ session = "open"
    /\ button = 0 /\ ~drag_active
    /\ \E b \in Buttons, point \in points :
        /\ button' = b
        /\ drag_active' = (b = BUTTON_PRIMARY)
        /\ IF b = BUTTON_PRIMARY
           THEN IF colour_tx
                THEN /\ colour_tx' = colour_tx
                     /\ colour_rx' = Append(colour_rx, get_colour_at(surface, point[1], point[2]))
                     /\ calls' = <<CallAt("get_colour_at", operation_stack, <<point>>)>>
                     /\ UNCHANGED <<operation_stack, session>>
                ELSE /\ Len(operation_stack.committed) + Len(operation_stack.redo) < cap
                     /\ operation_stack' = start_operation_at(operation_stack, point)
                     /\ calls' = <<CallAt("start_operation_at", operation_stack, <<point>>)>>
                     /\ UNCHANGED <<colour_tx, colour_rx, session>>
           ELSE /\ session' = IF b = BUTTON_SECONDARY THEN "closed" ELSE session
                /\ calls' = <<>>
                /\ UNCHANGED <<operation_stack, colour_tx, colour_rx>>
    /\ pass' = <<>>
    /\ redraw_queued' = FALSE
    /\ UNCHANGED <<dialog, chooser_colour, alpha, text_dialog, constructedVars, image_cell,
                   postcapture, ctrl_down, histVars>>

\* click_event_handler.connect_pressed
click_pressed(points, cap) ==
    /\ session = "open"
    /\ button = 0 /\ ~drag_active
    /\ \E b \in Buttons, point \in points :
        /\ button' = b
        /\ drag_active' = (b = BUTTON_PRIMARY)
        /\ IF b = BUTTON_PRIMARY
           THEN IF colour_tx
                THEN /\ colour_tx' = FALSE
                     /\ colour_rx' = Append(colour_rx, get_colour_at(surface, point[1], point[2]))
                     /\ calls' = <<CallAt("get_colour_at", operation_stack, <<point>>)>>
                     /\ UNCHANGED <<operation_stack, session>>
                ELSE /\ Len(operation_stack.committed) + Len(operation_stack.redo) < cap
                     /\ operation_stack' = start_operation_at(operation_stack, point)
                     /\ calls' = <<CallAt("start_operation_at", operation_stack, <<point>>)>>
                     /\ UNCHANGED <<colour_tx, colour_rx, session>>
           ELSE /\ session' = IF b = BUTTON_SECONDARY THEN "closed" ELSE session
                /\ calls' = <<>>
                /\ UNCHANGED <<operation_stack, colour_tx, colour_rx>>
    /\ pass' = <<>>
    /\ redraw_queued' = FALSE
    /\ UNCHANGED <<dialog, chooser_colour, alpha, text_dialog, constructedVars, image_cell,
                   postcapture, ctrl_down, histVars>>

\* connect_motion that drops the first window from the list it scanned
motion_drops_window(points) ==
    /\ session = "open"
    /\ \E point \in points :
         /\ operation_stack' = [set_current_window(operation_stack, point[1], point[2])
                                 EXCEPT !.windows = Tail(@)]
         /\ calls' = <<CallAt("set_current_window", operation_stack, <<point>>)>>
    /\ pass' = <<>>
    /\ redraw_queued' = TRUE
    /\ UNCHANGED <<dialogVars, text_dialog, constructedVars, image_cell, session,
                   postcapture, hostVars, histVars>>

\* motion_event_handler.connect_motion
motion(points) ==
    /\ session = "open"
    /\ \E point \in points :
         /\ operation_stack' = set_current_window(operation_stack, point[1], point[2])
         /\ calls' = <<CallAt("set_current_window", operation_stack, <<point>>)>>
    /\ pass' = <<>>
    /\ redraw_queued' = TRUE
    /\ UNCHANGED <<dialogVars, text_dialog, constructedVars, image_cell, session,
                   postcapture, hostVars, histVars>>

\* click_event_handler.connect_released
click_released(points) ==
    /\ session = "open"
    /\ button # 0
    /\ button' = 0
    /\ \E point \in points, ctx_ok \in BOOLEAN, pixbuf_ok \in BOOLEAN :
        LET s == operation_stack
            t == finish_current_operation(s)
        IN IF s.current_tool = "Text"
           THEN /\ text_dialog' = TRUE
                /\ calls' = <<>>
                /\ pass' = <<>>
                /\ redraw_queued' = TRUE
                /\ UNCHANGED <<operation_stack, session, postcapture, histVars>>
           ELSE IF ~is_saving_tool(s.current_tool)
           THEN /\ operation_stack' = t
                /\ calls' = <<Call("finish_current_operation", s)>>
                /\ NoteFinish(s, t)
                /\ pass' = <<>>
                /\ redraw_queued' = TRUE
                /\ UNCHANGED <<text_dialog, session, postcapture>>
           ELSE /\ operation_stack' = t
                /\ calls' = <<Call("finish_current_operation", s),
                              CallAt("do_save_surface", t, <<point>>)>>
                /\ NoteFinish(s, t)
                /\ do_save_surface(t, <<point>>, ctx_ok, pixbuf_ok)
                /\ redraw_queued' = FALSE
                /\ UNCHANGED text_dialog
    /\ UNCHANGED <<dialogVars, constructedVars, image_cell, drag_active, ctrl_down>>

\* connect_drag_update that passes the offsets in the wrong order
drag_update_swapped(offsets) ==
    /\ session = "open"
    /\ drag_active /\ button = BUTTON_PRIMARY
    /\ \E off \in offsets :
        LET s == operation_stack
            t == update_current_operation_end_coordinate(s, off[2], off[1])
        IN /\ operation_stack' = IF is_cropping_tool(t.current_tool)
                                 THEN set_is_in_crop_drag(t, TRUE) ELSE t
           /\ calls' = <<CallAt("update_current_operation_end_coordinate", s, <<off>>)>>
    /\ pass' = <<>>
    /\ redraw_queued' = TRUE
    /\ UNCHANGED <<dialogVars, text_dialog, constructedVars, image_cell, session,
                   postcapture, hostVars, histVars>>

\* drag_controller.connect_drag_update
drag_update(offsets) ==
    /\ session = "open"
    /\ drag_active /\ button = BUTTON_PRIMARY
    /\ \E off \in offsets :
        LET s == operation_stack
            t == update_current_operation_end_coordinate(s, off[1], off[2])
        IN /\ operation_stack' = IF is_cropping_tool(t.current_tool)
                                 THEN set_is_in_crop_drag(t, TRUE) ELSE t
           /\ calls' = <<CallAt("update_current_operation_end_coordinate", s, <<off>>)>>
    /\ pass' = <<>>
    /\ redraw_queued' = TRUE
    /\ UNCHANGED <<dialogVars, text_dialog, constructedVars, image_cell, session,
                   postcapture, hostVars, histVars>>

\* the drag end handler that leaves the Crop tool selected
drag_end_keeps_tool(offsets) ==
    /\ session = "open"
    /\ drag_active
    /\ drag_active' = FALSE
    /\ \E off \in offsets :
        LET s == operation_stack
            t == update_current_operation_end_coordinate(s, off[1], off[2])
            u == finish_current_operation(t)
        IN IF t.current_tool = "Crop"
           THEN /\ operation_stack' = u
                /\ calls' = <<CallAt("update_current_operation_end_coordinate", s, <<off>>),
                              Call("finish_current_operation", t),
                              Call("set_current_tool", u)>>
                /\ NoteFinish(t, u)
           ELSE /\ operation_stack' = t
                /\ calls' = <<CallAt("update_current_operation_end_coordinate", s, <<off>>)>>
                /\ UNCHANGED histVars
    /\ pass' = <<>>
    /\ redraw_queued' = TRUE
    /\ UNCHANGED <<dialogVars, text_dialog, constructedVars, image_cell, session,
                   postcapture, button, ctrl_down>>

\* drag_controller.connect_drag_end
drag_end(offsets) ==
    /\ session = "open"
    /\ drag_active
    /\ drag_active' = FALSE
    /\ \E off \in offsets :
        LET s == operation_stack
            t == update_current_operation_end_coordinate(s, off[1], off[2])
            u == finish_current_operation(t)
        IN IF t.current_tool = "Crop"
           THEN /\ operation_stack' = set_current_tool(u, "Pencil")
                /\ calls' = <<CallAt("update_current_operation_end_coordinate", s, <<off>>),
                              Call("finish_current_operation", t),
                              Call("set_current_tool", u)>>
                /\ NoteFinish(t, u)
           ELSE /\ operation_stack' = t
                /\ calls' = <<CallAt("update_current_operation_end_coordinate", s, <<off>>)>>
                /\ UNCHANGED histVars
    /\ pass' = <<>>
    /\ redraw_queued' = TRUE
    /\ UNCHANGED <<dialogVars, text_dialog, constructedVars, image_cell, session,
                   postcapture, button, ctrl_down>>

---------------------------------------------------------------------------
(* Key handlers *)

ControlKeys == {"Control_L", "Control_R"}
ShiftKeys == {"Shift_L", "Shift_R"}

\* key_event_controller.connect_key_pressed
key_pressed(keys) ==
    /\ session = "open"
    /\ \E key \in keys, ctx_ok \in BOOLEAN, pixbuf_ok \in BOOLEAN :
        /\ ctrl_down' = IF key \in ControlKeys THEN ctrl_down \cup {key} ELSE ctrl_down
        /\ IF key \in ControlKeys
           THEN /\ operation_stack' = set_ignore_windows(operation_stack, TRUE)
                /\ calls' = <<Call("set_ignore_windows", operation_stack)>>
                /\ pass' = <<>>
                /\ redraw_queued' = TRUE
                /\ UNCHANGED <<session, postcapture>>
           ELSE IF key = "Return"
           THEN IF ~editing_started_with_cropping
                THEN /\ calls' = <<>>
                     /\ pass' = <<>>
                     /\ redraw_queued' = FALSE
                     /\ UNCHANGED <<operation_stack, session, postcapture>>
                ELSE /\ do_save_surface(operation_stack, <<>>, ctx_ok, pixbuf_ok)
                     /\ calls' = <<Call("do_save_surface", operation_stack)>>
                     /\ redraw_queued' = FALSE
                     /\ UNCHANGED operation_stack
           ELSE IF key \in ShiftKeys
           THEN /\ operation_stack' =
                     [operation_stack EXCEPT !.selection_mode = "WindowsWithoutDecorations"]
                /\ calls' = <<Call("selection_mode", operation_stack)>>
                /\ pass' = <<>>
                /\ redraw_queued' = FALSE
                /\ UNCHANGED <<session, postcapture>>
           ELSE /\ calls' = <<>>
                /\ pass' = <<>>
                /\ redraw_queued' = FALSE
                /\ UNCHANGED <<operation_stack, session, postcapture>>
    /\ UNCHANGED <<dialogVars, text_dialog, constructedVars, image_cell, button,
                   drag_active, histVars>>

\* connect_key_released whose Shift branch also drops the operation in progress
key_released_drops_current(keys) ==
    /\ session = "open"
    /\ \E key \in keys :
        /\ key \in ControlKeys => key \in ctrl_down
        /\ ctrl_down' = ctrl_down \ {key}
        /\ IF key \in ControlKeys
           THEN /\ operation_stack' = set_ignore_windows(operation_stack, FALSE)
                /\ calls' = <<Call("set_ignore_windows", operation_stack)>>
                /\ redraw_queued' = TRUE
                /\ UNCHANGED session
           ELSE IF key = "Escape"
           THEN /\ session' = "closed"
                /\ calls' = <<>>
                /\ redraw_queued' = FALSE
                /\ UNCHANGED operation_stack
           ELSE IF key \in ShiftKeys
           THEN /\ operation_stack' =
                     [operation_stack EXCEPT !.selection_mode = "WindowsWithDecorations",
                                             !.current_operation = <<>>]
                /\ calls' = <<Call("selection_mode", operation_stack)>>
                /\ redraw_queued' = FALSE
                /\ UNCHANGED session
           ELSE /\ calls' = <<>>
                /\ redraw_queued' = FALSE
                /\ UNCHANGED <<operation_stack, session>>
    /\ pass' = <<>>
    /\ UNCHANGED <<dialogVars, text_dialog, constructedVars, image_cell, postcapture,
                   button, drag_active, histVars>>

\* key_event_controller.connect_key_released
key_released(keys) ==
    /\ session = "open"
    /\ \E key \in keys :
        /\ key \in ControlKeys => key \in ctrl_down
        /\ ctrl_down' = ctrl_down \ {key}
        /\ IF key \in ControlKeys
           THEN /\ operation_stack' = set_ignore_windows(operation_stack, FALSE)
                /\ calls' = <<Call("set_ignore_windows", operation_stack)>>
                /\ redraw_queued' = TRUE
                /\ UNCHANGED session
           ELSE IF key = "Escape"
           THEN /\ session' = "closed"
                /\ calls' = <<>>
                /\ redraw_queued' = FALSE
                /\ UNCHANGED operation_stack
           ELSE IF key \in ShiftKeys
           THEN /\ operation_stack' =
                     [operation_stack EXCEPT !.selection_mode = "WindowsWithDecorations"]
                /\ calls' = <<Call("selection_mode", operation_stack)>>
                /\ redraw_queued' = FALSE
                /\ UNCHANGED session
           ELSE /\ calls' = <<>>
                /\ redraw_queued' = FALSE
                /\ UNCHANGED <<operation_stack, session>>
    /\ pass' = <<>>
    /\ UNCHANGED <<dialogVars, text_dialog, constructedVars, image_cell, postcapture,
                   button, drag_active, histVars>>

---------------------------------------------------------------------------
(* Undo and redo actions *)

\* undo_action that also throws the in-progress operation away
undo_action_drops_current ==
    /\ session = "open"
    /\ operation_stack' = [undo(operation_stack) EXCEPT !.current_operation = <<>>]
    /\ ur' = NoteUndo(operation_stack)
    /\ calls' = <<Call("undo", operation_stack)>>
    /\ pass' = <<>>
    /\ redraw_queued' = TRUE
    /\ UNCHANGED <<dialogVars, text_dialog, constructedVars, image_cell, session,
                   postcapture, hostVars, orig>>

\* undo_action.connect_activate
undo_action ==
    /\ session = "open"
    /\ operation_stack' = undo(operation_stack)
    /\ ur' = NoteUndo(operation_stack)
    /\ calls' = <<Call("undo", operation_stack)>>
    /\ pass' = <<>>
    /\ redraw_queued' = TRUE
    /\ UNCHANGED <<dialogVars, text_dialog, constructedVars, image_cell, session,
                   postcapture, hostVars, orig>>

\* redo_action wired to undo() instead of redo()
redo_action_calls_undo ==
    /\ session = "open"
    /\ operation_stack' = undo(operation_stack)
    /\ ur' = NoteRedo(operation_stack)
    /\ calls' = <<Call("redo", operation_stack)>>
    /\ pass' = <<>>
    /\ redraw_queued' = TRUE
    /\ UNCHANGED <<dialogVars, text_dialog, constructedVars, image_cell, session,
                   postcapture, hostVars, orig>>

\* redo_action activated twice by one event
redo_action_twice ==
    /\ session = "open"
    /\ operation_stack' = redo(redo(operation_stack))
    /\ ur' = NoteRedo(operation_stack)
    /\ calls' = <<Call("redo", operation_stack)>>
    /\ pass' = <<>>
    /\ redraw_queued' = TRUE
    /\ UNCHANGED <<dialogVars, text_dialog, constructedVars, image_cell, session,
                   postcapture, hostVars, orig>>

\* redo_action.connect_activate
redo_action ==
    /\ session = "open"
    /\ operation_stack' = redo(operation_stack)
    /\ ur' = NoteRedo(operation_stack)
    /\ calls' = <<Call("redo", operation_stack)>>
    /\ pass' = <<>>
    /\ redraw_queued' = TRUE
    /\ UNCHANGED <<dialogVars, text_dialog, constructedVars, image_cell, session,
                   postcapture, hostVars, orig>>

---------------------------------------------------------------------------
(* The draw function of the drawing area *)

\* drawing_area.set_draw_func
draw(failures) ==
    /\ session = "open"
    /\ \E fail \in failures :
        /\ ValidFailure(operation_stack, TRUE, fail)
        /\ LET drawn == do_draw(operation_stack, NewContext, TRUE, fail)
           IN /\ pass' = drawn.steps
              /\ session' = IF drawn.panicked THEN "panicked" ELSE session
    /\ calls' = <<>>
    /\ redraw_queued' = FALSE
    /\ UNCHANGED <<operation_stack, dialogVars, text_dialog,
                   constructedVars, image_cell, postcapture, hostVars, histVars>>

---------------------------------------------------------------------------
(* Toolbar, text dialog, colour chooser dialog *)

\* the toolbar selects a tool
tool_selected(tools) ==
    /\ session = "open"
    /\ \E tool \in tools :
        /\ tool # operation_stack.current_tool
        /\ operation_stack' = set_current_tool(operation_stack, tool)
    /\ calls' = <<Call("set_current_tool", operation_stack)>>
    /\ pass' = <<>>
    /\ redraw_queued' = FALSE
    /\ UNCHANGED <<dialogVars, text_dialog, constructedVars, image_cell, session,
                   postcapture, hostVars, histVars>>

\* the text dialog answers: pop_text_dialog_and_get_text finishes the operation
text_dialog_response ==
    /\ session = "open"
    /\ text_dialog
    /\ text_dialog' = FALSE
    /\ LET s == operation_stack
           t == finish_current_operation(s)
       IN /\ operation_stack' = t
          /\ calls' = <<Call("finish_current_operation", s)>>
          /\ NoteFinish(s, t)
    /\ pass' = <<>>
    /\ redraw_queued' = FALSE
    /\ UNCHANGED <<dialogVars, constructedVars, image_cell, session, postcapture,
                   hostVars>>

\* Dialog::show
dialog_show ==
    /\ session = "open"
    /\ dialog = "none"
    /\ dialog' = "shown"
    /\ calls' = <<>>
    /\ pass' = <<>>
    /\ redraw_queued' = FALSE
    /\ UNCHANGED <<operation_stack, colour_tx, colour_rx, chooser_colour, alpha, text_dialog,
                   constructedVars, image_cell, session, postcapture,
                   hostVars, histVars>>

Responses == {"Ok", "Picker", "Cancel"}

\* Dialog::connect_response
dialog_response ==
    /\ session = "open"
    /\ dialog = "shown"
    /\ \E response \in Responses :
        IF response = "Picker"
        THEN /\ dialog' = "hidden"
             /\ colour_tx' = TRUE
             /\ colour_rx' = <<>>
        ELSE /\ dialog' = "none"
             /\ UNCHANGED <<colour_tx, colour_rx>>
    /\ calls' = <<>>
    /\ pass' = <<>>
    /\ redraw_queued' = FALSE
    /\ UNCHANGED <<operation_stack, chooser_colour, alpha, text_dialog,
                   constructedVars, image_cell, session, postcapture,
                   hostVars, histVars>>

\* ColourChooserWidget::set_colour: red, green, blue of the colour, opaque
set_colour(colour) == [colour EXCEPT !.alpha = 255]

\* pango::Color::parse on a text, a sequence of characters: # followed by 3,
\* 6, 9 or 12 hexadecimal digits, or the name of a colour; the channels have
\* 16 bits. <<>> is Err.
HexDigits == <<"0", "1", "2", "3", "4", "5", "6", "7", "8", "9",
               "a", "b", "c", "d", "e", "f">>
IsHex(ch) == \E i \in 1..16 : HexDigits[i] = ch
HexDigit(ch) == (CHOOSE i \in 1..16 : HexDigits[i] = ch) - 1
RECURSIVE HexValue(_)
HexValue(digits) ==
    IF digits = <<>> THEN 0
    ELSE HexValue(SubSeq(digits, 1, Len(digits) - 1)) * 16 + HexDigit(digits[Len(digits)])
\* a channel of len digits widened to 16 bits by repeating its bits
Widen(v, len) ==
    CASE len = 1 -> v * 4369
      [] len = 2 -> v * 257
      [] len = 3 -> v * 16 + (v \div 256)
      [] len = 4 -> v
ColourNames ==
    << [name |-> <<"r", "e", "d">>, red |-> 65535, green |-> 0, blue |-> 0],
       [name |-> <<"b", "l", "u", "e">>, red |-> 0, green |-> 0, blue |-> 65535] >>
parse(text) ==
    IF text # <<>> /\ text[1] = "#"
    THEN LET digits == Tail(text)
             len == Len(digits) \div 3
         IN IF /\ Len(digits) \in {3, 6, 9, 12}
               /\ \A i \in 1..Len(digits) : IsHex(digits[i])
            THEN << [red |-> Widen(HexValue(SubSeq(digits, 1, len)), len),
                     green |-> Widen(HexValue(SubSeq(digits, len + 1, 2 * len)), len),
                     blue |-> Widen(HexValue(SubSeq(digits, 2 * len + 1, 3 * len)), len)] >>
            ELSE <<>>
    ELSE LET named == {i \in 1..Len(ColourNames) : ColourNames[i].name = text}
         IN IF named # {}
            THEN LET c == ColourNames[CHOOSE i \in named : TRUE]
                 IN <<[red |-> c.red, green |-> c.green, blue |-> c.blue]>>
            ELSE <<>>

\* the colour of the wheel once its rgba is set from 16-bit channels
FromColor16(c) ==
    [red |-> (c.red * 255) \div 65535, green |-> (c.green * 255) \div 65535,
     blue |-> (c.blue * 255) \div 65535, alpha |-> 255]

\* the activate handler of the CSS colour entry that sets black when the
\* text is no colour
activate_or_black(colour, text) ==
    IF parse(text) # <<>> THEN FromColor16(parse(text)[1])
    ELSE [colour EXCEPT !.red = 0, !.green = 0, !.blue = 0]

\* the activate handler of the CSS colour entry, on the colour of the wheel
activate(colour, text) ==
    IF parse(text) # <<>>
    THEN [FromColor16(parse(text)[1]) EXCEPT !.alpha = colour.alpha]
    ELSE colour

\* the CSS colour entry is activated with the text typed into it
entry_activate(texts) ==
    /\ session = "open"
    /\ dialog = "shown"
    /\ \E text \in texts :
        /\ chooser_colour' = activate(chooser_colour, text)
        /\ calls' = <<CallAt("activate", operation_stack, <<text>>)>>
    /\ pass' = <<>>
    /\ redraw_queued' = FALSE
    /\ UNCHANGED <<operation_stack, colour_tx, colour_rx, dialog, alpha, text_dialog,
                   constructedVars, image_cell, session, postcapture,
                   hostVars, histVars>>

\* a closure attached to colour_rx that stays attached, the colour not
\* taken off the channel
colour_received_again ==
    /\ session = "open"
    /\ colour_rx # <<>>
    /\ chooser_colour' = set_colour(Head(colour_rx))
    /\ dialog' = "shown"
    /\ calls' = <<>>
    /\ pass' = <<>>
    /\ redraw_queued' = FALSE
    /\ UNCHANGED <<operation_stack, colour_tx, colour_rx, alpha, text_dialog,
                   constructedVars, image_cell, session, postcapture,
                   hostVars, histVars>>

\* the closure attached to colour_rx
colour_received ==
    /\ session = "open"
    /\ colour_rx # <<>>
    /\ chooser_colour' = set_colour(Head(colour_rx))
    /\ dialog' = "shown"
    /\ colour_rx' = <<>>
    /\ calls' = <<>>
    /\ pass' = <<>>
    /\ redraw_queued' = FALSE
    /\ UNCHANGED <<operation_stack, colour_tx, alpha, text_dialog,
                   constructedVars, image_cell, session, postcapture,
                   hostVars, histVars>>

\* ColourChooserWidget::colour: red, green, blue of the wheel, the stored alpha
ColourChooserWidget_colour(wheel, stored) == [wheel EXCEPT !.alpha = stored]

\* ObjectImpl::set_property of the widget, for "alpha", with an i32 that
\* GObject has validated against the range declared by properties()
set_property(values) ==
    /\ session = "open"
    /\ dialog # "none"
    /\ \E value \in values :
        /\ alpha' = as_u8(value)
        /\ calls' = <<CallAt("set_property", operation_stack, <<value>>)>>
    /\ pass' = <<>>
    /\ redraw_queued' = FALSE
    /\ UNCHANGED <<operation_stack, colour_tx, colour_rx, dialog, chooser_colour,
                   text_dialog, constructedVars, image_cell, session, postcapture,
                   hostVars, histVars>>

---------------------------------------------------------------------------
(* Sessions of pointer gestures, undo and redo, tool changes, text dialog *)

Tools == {"CropAndSave", "Crop", "Pencil", "Text"}
Origin == {<<3, 3>>}
Still == {<<0, 0>>}

Init == InitWith(Tools, {FALSE}, <<0, 0>>, {CapturedImage}, {ImageCell(TRUE)})

Next ==
    \/ click_pressed(Origin, MaxOps)
    \/ click_released(Origin)
    \/ drag_update(Still)
    \/ drag_end(Still)
    \/ undo_action
    \/ redo_action
    \/ tool_selected(Tools)
    \/ text_dialog_response

Spec == Init /\ [][Next]_vars

---------------------------------------------------------------------------
(* Sessions of drawing, cropping, rendering and saving *)

\* most operations on the stack in such a session
MaxRenderOps == 2

RenderTools == {"CropAndSave", "Crop", "Pencil"}
\* inside the second window only, inside both windows, inside neither
RenderPoints == {<<1, 1>>, <<3, 3>>, <<9, 9>>}
RenderOffsets == {<<1, 1>>}
SaveKeys == {"Return"}

InitRender == InitWith(RenderTools, BOOLEAN, Untracked, {CapturedImage}, {ImageCell(TRUE)})

NextRender ==
    \/ click_pressed(Origin, MaxRenderOps)
    \/ motion(Origin)
    \/ click_released(RenderPoints)
    \/ drag_update(RenderOffsets)
    \/ drag_end(RenderOffsets)
    \/ key_pressed(SaveKeys)
    \/ draw({NoFailure})
    \/ tool_selected(RenderTools)

SpecRender == InitRender /\ [][NextRender]_vars

---------------------------------------------------------------------------
(* Sessions of drawing and of picking a colour from the screenshot *)

\* most operations on the stack in such a session
MaxColourOps == 1

ColourTools == {"Pencil", "CropAndSave"}
ColourPoints == {<<1, 2>>, <<3, 3>>}

InitColour == InitWith(ColourTools, {FALSE}, Untracked, {CapturedImage}, {ImageCell(TRUE)})

NextColour ==
    \/ click_pressed(ColourPoints, MaxColourOps)
    \/ click_released(ColourPoints)
    \/ drag_update(Still)
    \/ drag_end(Still)
    \/ dialog_show
    \/ dialog_response
    \/ colour_received

SpecColour == InitColour /\ [][NextColour]_vars

---------------------------------------------------------------------------
(* The colour dialog with its CSS colour entry *)

\* the longest text typed into the entry
MaxText == 7

EntryTexts ==
    { <<"#", "f", "f", "8", "0", "0", "0">>, <<"#", "f", "8", "0">>,
      <<"r", "e", "d">>, <<>>, <<"#">>, <<"f", "f", "8", "0", "0", "0">>,
      <<"#", "f", "f", "8", "0">>, <<"#", "g", "g", "8", "0", "0", "0">>,
      <<"r", "e", "d", "d">>, <<"#", "f", "f", "8", "0", "0", "0", "0">> }

InitEntry == InitWith(ColourTools, {FALSE}, Untracked, {CapturedImage}, {ImageCell(TRUE)})

NextEntry ==
    \/ click_pressed(ColourPoints, MaxColourOps)
    \/ click_released(ColourPoints)
    \/ drag_end(Still)
    \/ dialog_show
    \/ dialog_response
    \/ colour_received
    \/ entry_activate({text \in EntryTexts : Len(text) <= MaxText})

SpecEntry == InitEntry /\ [][NextEntry]_vars

---------------------------------------------------------------------------
(* The colour dialog with its alpha property *)

\* every value that GObject lets through to set_property
DeclaredAlpha == ALPHA_MINIMUM..ALPHA_MAXIMUM
AlphaTexts == { <<"#", "f", "8", "0">>, <<"r", "e", "d">>, <<"#">> }

InitAlpha == InitWith(ColourTools, {FALSE}, Untracked, {CapturedImage}, {ImageCell(TRUE)})

NextAlpha ==
    \/ dialog_show
    \/ dialog_response
    \/ entry_activate(AlphaTexts)
    \/ set_property(DeclaredAlpha)

SpecAlpha == InitAlpha /\ [][NextAlpha]_vars

---------------------------------------------------------------------------
(* Sessions of drawing rectangles *)

\* most operations on the stack in such a session
MaxRectOps == 2

RectTools == {"Rectangle"}
RectPoints == {<<10, 10>>}
RectOffsets == {<<40, 70>>, <<5, 2>>}

InitRect == InitWith(RectTools, {FALSE}, <<0, 0>>, {CapturedImage}, {ImageCell(TRUE)})

NextRect ==
    \/ click_pressed(RectPoints, MaxRectOps)
    \/ click_released(RectPoints)
    \/ drag_update(RectOffsets)
    \/ drag_end(RectOffsets)
    \/ undo_action
    \/ redo_action

SpecRect == InitRect /\ [][NextRect]_vars

---------------------------------------------------------------------------
(* Crop drags *)

MaxCropOps == 1

CropTools == {"Crop"}
CropPoints == {<<1, 1>>, <<3, 3>>, <<9, 9>>}
CropOffsets == {<<0, 0>>, <<4, 5>>, <<-1, -1>>}

InitCrop == InitWith(CropTools, BOOLEAN, Untracked, {CapturedImage}, {ImageCell(TRUE)})

NextCrop ==
    \/ click_pressed(CropPoints, MaxCropOps)
    \/ motion(CropPoints)
    \/ drag_update(CropOffsets)
    \/ click_released(CropPoints)
    \/ drag_end(CropOffsets)

SpecCrop == InitCrop /\ [][NextCrop]_vars

---------------------------------------------------------------------------
(* Sessions of cropping with the Control and Shift keys *)

\* most operations on the stack in such a session
MaxKeyOps == 1

KeyTools == {"Crop", "Pencil"}
ModifierKeys == {"Control_L", "Control_R", "Shift_L"}
\* inside both windows, inside the second window only, inside neither
KeyPoints == {<<3, 3>>, <<1, 1>>, <<9, 9>>}

InitKeys == InitWith(KeyTools, {TRUE}, Untracked, {CapturedImage}, {ImageCell(TRUE)})

NextKeys ==
    \/ click_pressed(Origin, MaxKeyOps)
    \/ motion(KeyPoints)
    \/ click_released(Origin)
    \/ drag_update(Still)
    \/ drag_end(Still)
    \/ key_pressed(ModifierKeys)
    \/ key_released(ModifierKeys)
    \/ tool_selected(KeyTools)

SpecKeys == InitKeys /\ [][NextKeys]_vars

---------------------------------------------------------------------------
(* Sessions of picking colours from small surfaces of every layout *)

\* width and height of the surfaces
PixelSide == 2

PixelTools == {"Pencil"}
PixelPoints == (0..(PixelSide - 1)) \X (0..(PixelSide - 1))
Marked == [red |-> 10, green |-> 20, blue |-> 30]
Plain == [red |-> 200, green |-> 100, blue |-> 0]
\* one pixel painted Marked and the others Plain, or the other way round, in
\* rows with and without padding, the unused byte of a pixel clear or set
PixelImages ==
    { Paint([p \in PixelPoints |-> IF (p = q) = m THEN Marked ELSE Plain],
            PixelSide, PixelSide, stride, unused) :
        q \in PixelPoints, m \in BOOLEAN,
        stride \in {PixelSide * 4, PixelSide * 4 + 4}, unused \in {0, 127} }

InitPixel == InitWith(PixelTools, {FALSE}, Untracked, PixelImages, {ImageCell(TRUE)})

NextPixel ==
    \/ click_pressed(PixelPoints, MaxColourOps)
    \/ click_released(PixelPoints)
    \/ drag_end(Still)
    \/ dialog_show
    \/ dialog_response
    \/ colour_received

SpecPixel == InitPixel /\ [][NextPixel]_vars

---------------------------------------------------------------------------
(* Sessions of drawing with every drawing tool, and of rendering *)

\* most operations on the stack in such a session
MaxDrawOps == 2

DrawTools == {"Pencil", "Arrow", "Rectangle", "Ellipse", "Highlight", "Blur", "Text"}

InitDraw == InitWith(DrawTools, {FALSE}, Untracked, {CapturedImage}, {ImageCell(TRUE)})

NextDraw ==
    \/ click_pressed(Origin, MaxDrawOps)
    \/ click_released(Origin)
    \/ drag_end(Still)
    \/ draw({NoFailure})
    \/ tool_selected(DrawTools)
    \/ text_dialog_response

SpecDraw == InitDraw /\ [][NextDraw]_vars

---------------------------------------------------------------------------
(* Arrows along the axes *)

MaxArrowOps == 2
\* the arrows are this long, or three times as long
ArrowUnit == 100

ArrowTools == {"Arrow"}
ArrowPoints == {<<0, 0>>, <<ArrowUnit, ArrowUnit>>}
ArrowOffsets ==
    { <<ArrowUnit, 0>>, <<-ArrowUnit, 0>>, <<0, ArrowUnit>>, <<0, -ArrowUnit>>,
      <<3 * ArrowUnit, 0>>, <<0, -3 * ArrowUnit>> }

InitArrow == InitWith(ArrowTools, {FALSE}, Untracked, {CapturedImage}, {ImageCell(TRUE)})

NextArrow ==
    \/ click_pressed(ArrowPoints, MaxArrowOps)
    \/ drag_update(ArrowOffsets)
    \/ click_released(Origin)
    \/ drag_end(ArrowOffsets)
    \/ draw({NoFailure})

SpecArrow == InitArrow /\ [][NextArrow]_vars

---------------------------------------------------------------------------
(* Render passes in which a call fails *)

MaxFailOps == 2
\* the most calls an execute makes
MaxCalls == 10

FailTools == {"Pencil", "Rectangle", "Blur"}
Failures == {NoFailure} \cup BaseFailures \cup ((1..(MaxFailOps + 1)) \X (1..MaxCalls))

InitFail == InitWith(FailTools, {FALSE}, Untracked, {CapturedImage}, {ImageCell(TRUE)})

NextFail ==
    \/ click_pressed(Origin, MaxFailOps)
    \/ click_released(Origin)
    \/ drag_end(Still)
    \/ draw(Failures)
    \/ tool_selected(FailTools)

SpecFail == InitFail /\ [][NextFail]_vars

---------------------------------------------------------------------------
(* Calls of with_image and with_image_mut, from the host and from closures *)

\* most closures running on the image at once
MaxNesting == 3

\* with_image_mut that takes the exclusive borrow with borrow_mut
with_image_mut_unchecked ==
    /\ session = "open"
    /\ Len(image_cell.running) < MaxNesting
    /\ IF try_borrow_mut(image_cell)
       THEN /\ image_cell' = IF image_cell.some
                        THEN [image_cell EXCEPT !.borrow = -1,
                                           !.running = Append(@, "with_image_mut")]
                        ELSE image_cell
            /\ UNCHANGED session
       ELSE /\ session' = "panicked"
            /\ UNCHANGED image_cell
    /\ calls' = <<Call("with_image_mut", operation_stack)>>
    /\ pass' = <<>>
    /\ redraw_queued' = FALSE
    /\ UNCHANGED <<operation_stack, dialogVars, text_dialog, constructedVars,
                   postcapture, hostVars, histVars>>

\* EditorWindow::with_image_mut is called; func starts if it is to run
with_image_mut ==
    /\ session = "open"
    /\ Len(image_cell.running) < MaxNesting
    /\ image_cell' = IF try_borrow_mut(image_cell) /\ image_cell.some
                THEN [image_cell EXCEPT !.borrow = -1,
                                   !.running = Append(@, "with_image_mut")]
                ELSE image_cell
    /\ calls' = <<Call("with_image_mut", operation_stack)>>
    /\ pass' = <<>>
    /\ redraw_queued' = FALSE
    /\ UNCHANGED <<operation_stack, dialogVars, text_dialog, constructedVars,
                   session, postcapture, hostVars, histVars>>

\* EditorWindow::with_image is called; func starts if it is to run
with_image ==
    /\ session = "open"
    /\ Len(image_cell.running) < MaxNesting
    /\ image_cell' = IF try_borrow(image_cell) /\ image_cell.some
                THEN [image_cell EXCEPT !.borrow = @ + 1,
                                   !.running = Append(@, "with_image")]
                ELSE image_cell
    /\ calls' = <<Call("with_image", operation_stack)>>
    /\ pass' = <<>>
    /\ redraw_queued' = FALSE
    /\ UNCHANGED <<operation_stack, dialogVars, text_dialog, constructedVars,
                   session, postcapture, hostVars, histVars>>

\* the innermost func returns and its borrow is dropped
func_returns ==
    /\ session = "open"
    /\ image_cell.running # <<>>
    /\ image_cell' = [image_cell EXCEPT
                    !.borrow = IF image_cell.running[Len(image_cell.running)] = "with_image_mut"
                               THEN 0 ELSE @ - 1,
                    !.running = SubSeq(@, 1, Len(@) - 1)]
    /\ calls' = <<Call("return", operation_stack)>>
    /\ pass' = <<>>
    /\ redraw_queued' = FALSE
    /\ UNCHANGED <<operation_stack, dialogVars, text_dialog, constructedVars,
                   session, postcapture, hostVars, histVars>>

InitBorrow ==
    InitWith(Tools, BOOLEAN, Untracked, {CapturedImage}, {ImageCell(TRUE), ImageCell(FALSE)})

NextBorrow ==
    \/ with_image
    \/ with_image_mut
    \/ func_returns

SpecBorrow == InitBorrow /\ [][NextBorrow]_vars

---------------------------------------------------------------------------
(* Sessions of every pointer, drag and key event, undo, redo and tool change *)

\* most operations committed in such a session
MaxEventOps == 1

SomeKeys == {"Control_L", "Return", "Escape"}

InitEvents == InitWith(Tools, BOOLEAN, Untracked, {CapturedImage}, {ImageCell(TRUE)})

NextEvents ==
    \/ click_pressed(Origin, MaxEventOps)
    \/ motion(Origin)
    \/ click_released(Origin)
    \/ drag_update(Still)
    \/ drag_end(Still)
    \/ key_pressed(SomeKeys)
    \/ key_released(SomeKeys)
    \/ undo_action
    \/ redo_action
    \/ tool_selected(Tools)
    \/ text_dialog_response

SpecEvents == InitEvents /\ [][NextEvents]_vars

---------------------------------------------------------------------------
(* Undo and redo *)

Reverse(q) == [i \in 1..Len(q) |-> q[Len(q) + 1 - i]]
Front(q) == SubSeq(q, 1, Len(q) - 1)
Last(q) == q[Len(q)]

\* the last handler made the call f, and made it from a state satisfying P
Made(f) == {i \in 1..Len(calls) : calls[i].f = f}
Made1(f) == {i \in 1..Len(calls') : calls'[i].f = f}
Committing == \E i \in Made1("finish_current_operation") : calls'[i].drawing

\* C1: after N commits, then M <= N undos, then M redos, the committed
\* sequence is the N operations in their original order and the redo buffer
\* is empty.
C1_UndoThenRedoRestores ==
    (Tracked /\ ur[1] = ur[2]) =>
        /\ operation_stack.committed = orig
        /\ operation_stack.redo = <<>>

C1_Witness ==
    /\ ur = <<2, 2>>
    /\ Len(operation_stack.committed) = 3
    /\ operation_stack.committed[2] # operation_stack.committed[3]

\* C2: committing an operation (finish_current_operation from Drawing)
\* appends it and empties the whole redo buffer, so that a redo() right after
\* changes nothing; after commit A, commit B, undo, undo, the commit of C
\* leaves committed = [C] and an empty redo buffer.
C2_CommitDiscardsRedo ==
    [][Committing =>
         /\ operation_stack'.redo = <<>>
         /\ redo(operation_stack') = operation_stack'
         /\ Len(operation_stack'.committed) = Len(operation_stack.committed) + 1
         /\ Front(operation_stack'.committed) = operation_stack.committed
         /\ (ur = <<2, 0>> /\ Len(orig) = 2) => Len(operation_stack'.committed) = 1
      ]_vars

C2_Witness ==
    /\ \E i \in Made("finish_current_operation") :
          calls[i].drawing /\ calls[i].redo = 2 /\ calls[i].committed = 0
    /\ Len(operation_stack.committed) = 1
    /\ operation_stack.redo = <<>>

\* C3: undo() with nothing committed, and redo() with an empty redo buffer,
\* leave the whole OperationStack unchanged.
C3_EmptyUndoRedoNoOp ==
    [][/\ (Made1("undo") # {} /\ operation_stack.committed = <<>>)
            => operation_stack' = operation_stack
       /\ (Made1("redo") # {} /\ operation_stack.redo = <<>>)
            => operation_stack' = operation_stack
      ]_vars

C3_Witness ==
    /\ \E i \in Made("undo") : calls[i].committed = 0 /\ calls[i].redo = 2
    /\ operation_stack.current_operation # <<>>

\* C4: an undo() from a non-empty committed sequence removes exactly its last
\* entry and makes it the one the next redo() restores; a redo() from a
\* non-empty redo buffer appends exactly that entry to the committed
\* sequence; over undo() and redo() the committed sequence followed by the
\* redo buffer in restore order does not change.
C4_UndoRedoMoveOneEntry ==
    [][/\ (Made1("undo") # {} /\ operation_stack.committed # <<>>) =>
            /\ operation_stack'.committed = Front(operation_stack.committed)
            /\ operation_stack'.redo # <<>>
            /\ Last(operation_stack'.redo) = Last(operation_stack.committed)
            /\ redo(operation_stack') = operation_stack
       /\ (Made1("redo") # {} /\ operation_stack.redo # <<>>) =>
            /\ operation_stack'.committed =
                 Append(operation_stack.committed, Last(operation_stack.redo))
            /\ operation_stack'.redo = Front(operation_stack.redo)
       /\ (Made1("undo") # {} \/ Made1("redo") # {}) =>
            operation_stack'.committed \o Reverse(operation_stack'.redo)
              = operation_stack.committed \o Reverse(operation_stack.redo)
      ]_vars

C4_Witness ==
    /\ \E i \in Made("redo") : calls[i].redo = 2 /\ calls[i].committed = 1
    /\ Len(operation_stack.committed) = 2
    /\ Len(operation_stack.redo) = 1

C6_CropRegionPriority ==
    LET s == operation_stack
        expected(pt) ==
            LET crops == {i \in 1..Len(s.committed) : s.committed[i].kind = "Crop"}
                hits == IF pt = <<>> THEN {}
                        ELSE {i \in 1..Len(DetectedWindows) :
                                 Contains(DetectedWindows[i], pt[1])}
            IN IF crops # {} THEN {OpRect(s.committed[i]) : i \in crops}
               ELSE IF hits # {}
               THEN {DetectedWindows[i] : i \in {k \in hits : \A j \in hits : k <= j}}
               ELSE {ScreenDimensions}
        fallback(pt) ==
            /\ \A i \in 1..Len(s.committed) : s.committed[i].kind # "Crop"
            /\ pt = <<>> \/ \A i \in 1..Len(DetectedWindows) :
                                ~Contains(DetectedWindows[i], pt[1])
    IN /\ \A pt \in {<<>>} \cup {<<p>> : p \in RenderPoints} :
            /\ SaveRectangle(s, pt) \in expected(pt)
            /\ crop_region(s, pt) = <<>> <=> fallback(pt)
       /\ \A i \in Made("do_save_surface") :
            postcapture # <<>> => Last(postcapture) \in expected(calls[i].at)

\* a save at a point inside both windows cut out the first of them
C6_Witness ==
    /\ \E i \in Made("do_save_surface") : calls[i].at = <<(<<3, 3>>)>>
    /\ postcapture = <<DetectedWindows[1]>>

\* C7: a render pass paints the base image first, with the Source operator,
\* then executes every committed operation exactly once in commit order, and
\* executes the operation in progress last exactly when the pass is a live
\* draw and there is one; the pass of a save never executes it.
C7_RenderPassOrder ==
    pass # <<>> =>
        LET live == pass[1].live
            ops == operation_stack.committed \o
                     (IF live THEN operation_stack.current_operation ELSE <<>>)
        IN /\ Len(pass) = 4 + Len(ops)
           /\ pass[1].f = "set_operator Source"
           /\ pass[2].f = "set_source_surface"
           /\ pass[3].f = "paint"
           /\ pass[4].f = "set_operator Over"
           /\ \A i \in 1..Len(ops) :
                pass[4 + i].f = "execute" /\ pass[4 + i].op = <<ops[i]>>

\* C8: while a colour request is pending, a press of the primary button does
\* not call start_operation_at and leaves the stack alone; it sends the colour
\* of the pixel under the pointer to the request, once, and no request is
\* pending after it. With no request pending, a press of the primary button
\* calls start_operation_at.
C8_ColourPickIntercept ==
    [][(button = 0 /\ button' = BUTTON_PRIMARY) =>
         IF colour_tx
         THEN /\ Made1("start_operation_at") = {}
              /\ operation_stack' = operation_stack
              /\ \E i \in Made1("get_colour_at") :
                    colour_rx' = <<get_colour_at(surface, calls'[i].at[1][1],
                                                calls'[i].at[1][2])>>
              /\ ~colour_tx'
         ELSE /\ Made1("start_operation_at") # {}
              /\ colour_rx' = colour_rx
              /\ ~colour_tx']_vars

\* the colour picked at (1, 2) reached the chooser, and the press after the
\* pick started an operation
C8_Witness ==
    /\ chooser_colour = [red |-> 1, green |-> 2, blue |-> 3, alpha |-> 255]
    /\ \E i \in Made("start_operation_at") : ~calls[i].drawing
    /\ Drawing(operation_stack)

\* C9: start_operation_at is only called while the stack is Idle, and the
\* call leaves it Drawing with an operation of the shape of the current tool.
C9_StartOnlyWhenIdle ==
    \A i \in Made("start_operation_at") :
        /\ ~calls[i].drawing
        /\ Drawing(operation_stack)
        /\ operation_stack.current_operation[1].kind =
               ToolKind(operation_stack.current_tool)

\* C10: update_current_operation_end_coordinate and finish_current_operation
\* are only called while the stack is Drawing, and an update never changes
\* whether the stack is Idle or Drawing.
C10_UpdateFinishOnlyWhenDrawing ==
    /\ \A i \in Made("update_current_operation_end_coordinate")
                 \cup Made("finish_current_operation") : calls[i].drawing
    /\ (Len(calls) = 1 /\ calls[1].f = "update_current_operation_end_coordinate")
          => calls[1].drawing = Drawing(operation_stack)

\* C11: with the rectangle tool, a press at p starts DrawRectangle with the
\* empty rectangle at p; an update by the drag offset q - p sets its size to
\* that offset and nothing else; the finish appends that operation as the
\* last committed entry and leaves the stack Idle. A press at (10, 10) dragged
\* to (50, 80) commits the rectangle (10, 10, 40, 70); the undo after the
\* commit empties the committed sequence and the redo after it restores the
\* same entry.
C11_RectangleDrag ==
    [][LET s == operation_stack
           t == operation_stack'
       IN /\ \A i \in Made1("start_operation_at") :
                ~calls'[i].drawing =>
                    t.current_operation =
                        <<[kind |-> "DrawRectangle", x |-> calls'[i].at[1][1],
                           y |-> calls'[i].at[1][2], w |-> 0, h |-> 0]>>
          /\ \A i \in Made1("update_current_operation_end_coordinate") :
                calls'[i].drawing =>
                    /\ t.current_operation =
                          <<[s.current_operation[1] EXCEPT
                                !.w = calls'[i].at[1][1], !.h = calls'[i].at[1][2]]>>
                    /\ t.committed = s.committed
          /\ Committing =>
                /\ t.committed = Append(s.committed, s.current_operation[1])
                /\ Idle(t)
                /\ Last(t.committed).kind = "DrawRectangle"
          /\ (Made1("undo") # {} /\ ur = <<0, 0>> /\ Len(s.committed) = 1) =>
                t.committed = <<>>
          /\ (Made1("redo") # {} /\ ur = <<1, 0>> /\ Len(orig) = 1) =>
                t.committed = orig]_vars

\* the rectangle dragged from (10, 10) to (50, 80) was committed, undone and
\* restored
C11_Witness ==
    /\ operation_stack.committed =
          <<[kind |-> "DrawRectangle", x |-> 10, y |-> 10, w |-> 40, h |-> 70]>>
    /\ ur = <<1, 1>>
    /\ Idle(operation_stack)

\* C12: set_current_tool, set_ignore_windows and the writes of selection_mode
\* on Shift press and release leave the committed sequence, the redo buffer
\* and the operation in progress as they are: a handler that only sets leaves
\* the three unchanged, and the set_current_tool that ends drag_end leaves
\* them as they were when it was called.
C12_SettersKeepHistory ==
    [][\A i \in 1..Len(calls') :
          calls'[i].f \in {"set_current_tool", "set_ignore_windows", "selection_mode"} =>
              /\ i = Len(calls')
              /\ Len(operation_stack'.committed) = calls'[i].committed
              /\ Len(operation_stack'.redo) = calls'[i].redo
              /\ Drawing(operation_stack') = calls'[i].drawing
              /\ Len(calls') = 1 =>
                    /\ operation_stack'.committed = operation_stack.committed
                    /\ operation_stack'.redo = operation_stack.redo
                    /\ operation_stack'.current_operation =
                          operation_stack.current_operation]_vars

\* Shift was released while an operation was in progress, and it still is
C12_Witness ==
    /\ Len(calls) = 1 /\ calls[1].f = "selection_mode" /\ calls[1].drawing
    /\ operation_stack.selection_mode = "WindowsWithDecorations"
    /\ Drawing(operation_stack)

\* C13: the detected windows and the screen bounds given to OperationStack::new
\* are those the stack holds after every pointer, motion, drag and key event,
\* undo, redo and tool change of the session.
C13_WindowsAndScreenFixed ==
    /\ operation_stack.windows = DetectedWindows
    /\ operation_stack.screen_dimensions = ScreenDimensions

\* a motion scanned the windows and snapped the selection to the first one
C13_Witness ==
    /\ Len(calls) = 1 /\ calls[1].f = "set_current_window"
    /\ Drawing(operation_stack)
    /\ OpRect(operation_stack.current_operation[1]) = DetectedWindows[1]

\* C14: get_colour_at(x, y) on a pixel inside a surface of 4 bytes per pixel
\* returns the red, green and blue the pixel was painted with, that is those
\* of the pixel's 32-bit quantity, and alpha 255, whatever the stride of the
\* rows and the unused byte of the pixel.
C14_ColourAtPixel ==
    \A i \in Made("get_colour_at") :
        LET x == calls[i].at[1][1]
            y == calls[i].at[1][2]
            word == surface.data[y * (surface.stride \div 4) + x + 1]
        IN (x < surface.width /\ y < surface.height) =>
              colour_rx = <<[red |-> (word \div 65536) % 256,
                             green |-> (word \div 256) % 256,
                             blue |-> word % 256,
                             alpha |-> 255]>>

\* the one pixel painted (10, 20, 30), in the second row of a padded surface
\* whose unused bytes are set, was picked
C14_Witness ==
    /\ \E i \in Made("get_colour_at") : calls[i].at = <<(<<1, 1>>)>>
    /\ surface.stride > 4 * surface.width
    /\ surface.data[1] = PixelWord(Plain, 127)
    /\ colour_rx = <<[red |-> 10, green |-> 20, blue |-> 30, alpha |-> 255]>>

\* C15: in a render pass, the execute of a DrawLine, DrawArrow, DrawRectangle,
\* DrawEllipse, Highlight, Text or Blur operation leaves the operator, the
\* source and the transform of the context, and its saved states, as they
\* were before it.
C15_ExecuteRestoresContext ==
    \A i \in 2..Len(pass) :
        (/\ pass[i].f = "execute"
         /\ pass[i].op[1].kind \in {"DrawLine", "DrawArrow", "DrawRectangle",
                                     "DrawEllipse", "Highlight", "Text", "Blur"})
        => pass[i].cairo = pass[i - 1].cairo

\* C16: after every sequence of key presses and releases, the ignore-windows
\* flag of the stack is set exactly when Control_L or Control_R is held down.
C16_IgnoreWindowsWhileControlHeld ==
    operation_stack.ignore_windows <=> (ctrl_down # {})

\* C17: on a motion at (x, y) while a cropping tool has a selection in
\* progress, with the ignore-windows flag clear the selection becomes the
\* first rectangle of the window list, in the order given, that contains
\* (x, y); with the flag set the selection is left as the drag made it.
C17_SnapToFirstWindow ==
    [][(/\ Made1("set_current_window") # {}
        /\ is_cropping_tool(operation_stack.current_tool)
        /\ Drawing(operation_stack)) =>
          LET pt == calls'[1].at[1]
              hits == {i \in 1..Len(DetectedWindows) : Contains(DetectedWindows[i], pt)}
          IN /\ (~operation_stack.ignore_windows /\ hits # {}) =>
                  \E i \in hits :
                     /\ \A j \in hits : i <= j
                     /\ Drawing(operation_stack')
                     /\ OpRect(operation_stack'.current_operation[1]) = DetectedWindows[i]
             /\ operation_stack.ignore_windows =>
                  operation_stack' = operation_stack]_vars

\* the selection was snapped to the first window; then, with the flag set, a
\* motion over the second window only left it as it was
C17_Witness ==
    /\ Len(calls) = 1 /\ calls[1].f = "set_current_window"
    /\ calls[1].at = <<(<<1, 1>>)>>
    /\ operation_stack.ignore_windows
    /\ Drawing(operation_stack)
    /\ OpRect(operation_stack.current_operation[1]) = DetectedWindows[1]

\* C18: func of with_image_mut starts only when with_image_mut obtains the
\* exclusive borrow, that is when nothing else holds the image; func of
\* with_image only when no exclusive borrow is held; a call that does not
\* obtain its borrow, or finds no Image, runs nothing, changes nothing and
\* does not panic. So a func that may mutate the image never runs while
\* another func, a render pass among them, is running on it.
C18_BorrowBeforeRun ==
    [][/\ Made1("with_image_mut") # {} =>
            IF image_cell.borrow = 0 /\ image_cell.some
            THEN image_cell'.running = Append(image_cell.running, "with_image_mut")
            ELSE image_cell' = image_cell /\ session' = session
                 /\ operation_stack' = operation_stack
       /\ Made1("with_image") # {} =>
            IF image_cell.borrow # -1 /\ image_cell.some
            THEN image_cell'.running = Append(image_cell.running, "with_image")
            ELSE image_cell' = image_cell /\ session' = session
                 /\ operation_stack' = operation_stack
       /\ (\E i \in 1..Len(image_cell'.running) : image_cell'.running[i] = "with_image_mut")
            => Len(image_cell'.running) = 1]_vars

\* with_image_mut was called while a func of with_image was running, and
\* did not run its func
C18_Witness ==
    /\ Len(calls) = 1 /\ calls[1].f = "with_image_mut"
    /\ image_cell.running = <<"with_image">>
    /\ session = "open"

\* C19: a pointer release with a saving tool finishes the operation in
\* progress first, so that it is committed when the image is composited; the
\* composite is the base image and then every committed operation, none of
\* them live; the session is then closed, the post-capture action is given the
\* rectangle resolved from the release point, and no redraw is queued. A pass
\* that never started (no cairo context) and a save without a pixbuf are left
\* out of the statement.
C19_SaveOnRelease ==
    [][\A i \in Made1("do_save_surface") : calls'[i].at # <<>> =>
        LET s == operation_stack
            t == operation_stack'
        IN /\ i = 2 /\ calls'[1].f = "finish_current_operation"
           /\ is_saving_tool(s.current_tool)
           /\ t.current_operation = <<>>
           /\ t.committed = s.committed \o s.current_operation
           /\ ~redraw_queued'
           /\ pass' # <<>> =>
                /\ \A k \in 1..Len(pass') : ~pass'[k].live
                /\ Len(pass') = 4 + Len(t.committed)
                /\ \A j \in 1..Len(t.committed) :
                     pass'[4 + j].f = "execute" /\ pass'[4 + j].op = <<t.committed[j]>>
                /\ session' = "closed"
                /\ postcapture' \in {postcapture,
                                     Append(postcapture, SaveRectangle(t, calls'[i].at))}]_vars

\* C20: a handler that starts, updates or finishes an operation, undoes or
\* redoes one, snaps to a window, or changes ignore_windows or selection_mode
\* queues a redraw before it returns, unless it is a save. The answer of the
\* text dialog is not one of these handlers.
C20_RedrawAfterVisualChange ==
    [][LET s == operation_stack
           t == operation_stack'
           changed == \/ t.current_operation # s.current_operation
                      \/ t.committed # s.committed
                      \/ t.redo # s.redo
                      \/ t.ignore_windows # s.ignore_windows
                      \/ t.selection_mode # s.selection_mode
                      \/ Made1("set_current_window") # {}
       IN changed /\ Made1("do_save_surface") = {} /\ ~(text_dialog /\ ~text_dialog')
            => redraw_queued']_vars

\* C21: when the painting of the base image, or a graphics-context call of an
\* execute, fails in a render pass, the pass ends there: no committed
\* operation is executed after the failure.
C21_FailureAbortsPass ==
    \A i \in 1..Len(pass) : pass[i].result = <<"Cairo">> =>
        \A j \in (i + 1)..Len(pass) :
            ~(pass[j].f = "execute" /\ j - 4 <= Len(operation_stack.committed))

\* C22: when the execute of a Blur operation cannot get the pixels of its
\* rectangle from the surface, it returns Error::Pixbuf with that rectangle,
\* and when the bytes of the pixbuf cannot be read, Error::PixelBytes; the
\* operation has then painted nothing, and the pass leaves the operation
\* stack and the session as they were.
C22_BlurExtractionFails ==
    [][\A i \in 1..Len(pass') :
        pass'[i].at \in {"pixbuf_get_from_surface", "pixel_bytes"} =>
            /\ pass'[i].op[1].kind = "Blur"
            /\ pass'[i].result =
                 IF pass'[i].at = "pixbuf_get_from_surface"
                 THEN <<"Pixbuf", OpRect(pass'[i].op[1])>> ELSE <<"PixelBytes">>
            /\ pass'[i].painted = 0
            /\ operation_stack' = operation_stack
            /\ session' = session]_vars

\* the pixels of a committed Blur could not be taken from the surface, and
\* the pass went on to the operation after it
C22_Witness ==
    \E i \in 1..Len(pass) :
        /\ pass[i].at = "pixbuf_get_from_surface"
        /\ pass[i].result = <<"Pixbuf", Rect(3, 3, 0, 0)>>
        /\ i < Len(pass)
        /\ session = "open"

\* C23: activating the CSS colour entry with a text that is no colour leaves
\* the colour of the wheel, and so of the chooser, as it was, and nothing
\* else changes: no error, no operation.
C23_UnparsedTextKeepsColour ==
    [][\A i \in Made1("activate") : parse(calls'[i].at[1]) = <<>> =>
        /\ chooser_colour' = chooser_colour
        /\ operation_stack' = operation_stack
        /\ session' = session /\ dialog' = dialog]_vars

\* a colour picked from the image was in the chooser when the entry was
\* activated with a # and five digits, and is still there
C23_Witness ==
    /\ \E i \in Made("activate") : calls[i].at = << <<"#", "f", "f", "8", "0">> >>
    /\ chooser_colour = [red |-> 1, green |-> 2, blue |-> 3, alpha |-> 255]

\* C24: the execute of a DrawArrow from start to end, start and end apart,
\* builds the shaft and two wings and strokes them by one call: the
\* arrowhead length L is a tenth of the length of the shaft, and with a the
\* angle of the shaft, from start towards end, the wings join the tip to
\* tip - L * (cos(a - 30), sin(a - 30)) and tip - L * (cos(a + 30), sin(a + 30));
\* from (0, 0) to (100, 0), L is 10.
C24_ArrowGeometry ==
    \A i \in 1..Len(pass) :
        (pass[i].f = "execute" /\ pass[i].op[1].kind = "DrawArrow"
           /\ (pass[i].op[1].w # 0 \/ pass[i].op[1].h # 0)) =>
        LET op == pass[i].op[1]
            start == <<op.x, op.y>>
            end == <<op.x + op.w, op.y + op.h>>
            tip == Milli(end)
            a == get_line_angle_atan2(start, end)[1]
            L == dist(<<op.w, op.h>>) * 100
            wing(deg) == <<tip[1] - ((L * Cos1000(deg)) \div 1000),
                           tip[2] - ((L * Sin1000(deg)) \div 1000)>>
            path == pass[i].path[1]
        IN /\ path.arrow_length = L
           /\ (start = <<0, 0>> /\ end = <<100, 0>>) => path.arrow_length = 10 * 1000
           /\ path.strokes = 1
           /\ Len(path.segments) = 3
           /\ path.segments[1] = <<Milli(start), tip>>
           /\ {path.segments[2][1], path.segments[2][2]} = {tip, wing(a - 30)}
           /\ {path.segments[3][1], path.segments[3][2]} = {tip, wing(a + 30)}

\* C25: a render pass over committed operations that include a Crop,
\* WindowSelect or Finish marker runs to its end without a panic: the marker
\* paints nothing, and every committed operation, the ones after the marker
\* too, is executed in commit order.
C25_MarkersAreSkipped ==
    LET committed == operation_stack.committed
    IN (/\ pass # <<>>
        /\ \A i \in 1..Len(pass) : pass[i].result = Ok
        /\ \E k \in 1..Len(committed) :
              committed[k].kind \in {"Crop", "WindowSelect", "Finish"})
       => /\ session # "panicked"
          /\ Len(pass) >= 4 + Len(committed)
          /\ \A k \in 1..Len(committed) :
               /\ pass[4 + k].f = "execute" /\ pass[4 + k].op = <<committed[k]>>
               /\ committed[k].kind \in MarkerKinds => pass[4 + k].painted = 0

\* C26: a press of Return saves exactly when the session was started with
\* cropping: it then composites the image, closes the session and hands the
\* rectangle resolved without a point to the post-capture action; otherwise
\* it leaves the stack, the session and the post-capture action alone. A
\* save that gets no cairo context or no pixbuf is left out.
C26_ReturnSavesInCropFirst ==
    [][key_pressed({"Return"}) =>
        LET saved == Made1("do_save_surface") # {}
        IN /\ saved <=> editing_started_with_cropping
           /\ operation_stack' = operation_stack
           /\ ~saved => session' = session /\ postcapture' = postcapture /\ pass' = <<>>
           /\ (saved /\ pass' # <<>>) =>
                /\ session' = "closed"
                /\ postcapture' \in
                     {postcapture,
                      Append(postcapture, SaveRectangle(operation_stack, <<>>))}]_vars

C29_ReleaseWithoutOperation ==
    [][(/\ button # 0 /\ button' = 0
        /\ button # BUTTON_PRIMARY \/ Idle(operation_stack)) =>
        /\ operation_stack'.committed = operation_stack.committed
        /\ Made1("do_save_surface") = {}
        /\ postcapture' = postcapture
        /\ session' = session]_vars

\* C30: whatever Operation::execute returns, Ok or an error, it has made as
\* many restore calls as save calls: the context has as many saved states
\* after the execute as before it.
C30_SaveRestoreBalanced ==
    \A i \in 2..Len(pass) :
        (pass[i].f = "execute" /\ ~ExecutePanics(pass[i].op[1])) =>
            Len(pass[i].cairo.saved) = Len(pass[i - 1].cairo.saved)

\* C31: a do_save_surface that closes the session has just handed the
\* post-capture action, once, the rectangle resolved from the stack and the
\* point it was given; a do_save_surface that gets no cairo context makes no
\* pass, leaves the session open and hands nothing over.
C31_SaveHandsOverOnce ==
    [][\A i \in Made1("do_save_surface") :
        /\ (session = "open" /\ session' = "closed") =>
             postcapture' =
                 Append(postcapture, SaveRectangle(operation_stack', calls'[i].at))
        /\ pass' = <<>> => session' = session /\ postcapture' = postcapture]_vars

\* C32: set_property with a value v of the declared range of "alpha" leaves
\* v as the stored alpha and as the alpha of the colour that colour() returns,
\* and that alpha is a byte, 0 to 255.
C32_AlphaStored ==
    [][\A i \in Made1("set_property") :
        LET v == calls'[i].at[1]
        IN /\ alpha' = v
           /\ ColourChooserWidget_colour(chooser_colour', alpha').alpha = v
           /\ alpha' \in 0..255]_vars

====
